---------------------------- MODULE Spec2Model ----------------------------
(***************************************************************************)
(* Model of the group-partitioning code of swift-coffees.                  *)
(*                                                                         *)
(* Two variants of createGroups are modelled step by step:                 *)
(*   "full"   - src/unnamed/part_001 (branching on the remainder, followed *)
(*              by the final safety check that redistributes singletons),  *)
(*   "simple" - src/src/utils.ts (chunk, then merge a trailing singleton). *)
(* JavaScript arrays are reference values; the model keeps them in a heap  *)
(* so that aliasing and in-place mutation (push, swap) are visible.        *)
(***************************************************************************)
EXTENDS Integers, Sequences, FiniteSets, TLC

\* Bounds of the model.
MaxUsers == 11         \* users.length ranges over 0..MaxUsers
MaxGroupSize == 4      \* groupSize ranges over 0..MaxGroupSize
MaxSwaps == 1          \* shuffles explored: at most this many non-trivial swaps
MaxFairUsers == 8      \* users.length in the runs checked for termination
MaxRepairGroups == 5   \* repair pass on its own: number of groups in the list
MaxRepairSize == 3     \* repair pass on its own: members per group
MaxShuffleLen == 5     \* shuffleArray on its own: length of the array
MaxRandUsers == 5      \* two invocations on one input: length of the input
MaxMeetMembers == 4    \* createGoogleMeetEvent on its own: members of the group
MaxPages == 2          \* getChannelMembers: pages of conversations.members
MaxPageMembers == 3    \* getChannelMembers: member ids per page
MaxRunUsers == 5       \* getChannelMembers: users collected
MaxNoEmail == 2        \* getChannelMembers: collected users without an address

VARIABLES
    variant,        \* which createGroups is running: "full" | "simple" | "repair"
    groupSize,      \* parameter groupSize
    input,          \* history: contents of the caller's array when called
    heap,           \* heap[r] = contents of the array with reference r
    shuffledUsers,  \* reference held by const shuffledUsers (0 before the copy)
    groups,         \* const groups: sequence of CoffeeGroup objects [members |-> r]
    i,              \* loop counter i (shuffle loop, for loops)
    currentIndex,   \* let currentIndex
    redistribute,   \* outcome of the test at part_001 line 143
    swaps,          \* number of non-trivial swaps the shuffle has made
    pc,             \* control point
    result,         \* value returned: the list of the groups' member lists
    choices,        \* history: the indices j drawn by the shuffle, in order
    previous,       \* history: [result, choices] of the earlier invocations
    env,            \* the process: configuration, calendar client, lifecycle
    fetch,          \* getChannelMembers: its locals and what it returned
    run,            \* one run of an entry point: its locals and outcome
    meet,           \* createGoogleMeetEvent: its arguments and result
    posts,          \* the Slack messages sent so far, in order
    runs            \* the locals of overlapping calls of triggerCoffeeShuffle

\* The state of the run-level code, untouched by createGroups.
runVars == <<env, fetch, run, meet, posts, runs>>

vars == <<variant, groupSize, input, heap, shuffledUsers, groups, i,
          currentIndex, redistribute, swaps, pc, result, choices, previous,
          env, fetch, run, meet, posts, runs>>

\* The caller's array: the parameter users is the first array of the heap.
users == 1

----------------------------------------------------------------------------
\* JavaScript helpers.

Min(a, b) == IF a <= b THEN a ELSE b

\* Array.prototype.slice(start, end) for 0 <= start: elements start..end-1.
Slice(a, start, end) ==
    LET hi == Min(end, Len(a))
    IN  IF hi <= start THEN <<>> ELSE SubSeq(a, start + 1, hi)

\* a % b for b > 0: the result takes the sign of the dividend.
JsMod(a, b) == IF a >= 0 THEN a % b ELSE 0 - ((0 - a) % b)

\* `a % b === r`; with b = 0 the remainder is NaN and the test is false.
RemainderIs(a, b, r) == b # 0 /\ JsMod(a, b) = r

\* Math.ceil(a / b) for b > 0.
CeilDiv(a, b) == IF a <= 0 THEN 0 - ((0 - a) \div b) ELSE (a + b - 1) \div b

\* Allocation of a new array holding `contents`.
Alloc(h, contents) == [heap |-> Append(h, contents), ref |-> Len(h) + 1]

\* [...array]: a fresh array with the same elements.
AliasArray(h, r) == [heap |-> h, ref |-> r]
CopyArray(h, r) == Alloc(h, h[r])

\* The member lists of a list of groups.
Members(gs, h) == [k \in 1..Len(gs) |-> h[gs[k].members]]

\* groups.push({ members: <new array holding contents> })
PushGroup(gs, h, contents) ==
    LET a == Alloc(h, contents)
    IN  [groups |-> Append(gs, [members |-> a.ref]), heap |-> a.heap]

\* if (groupMembers.length > 0) groups.push({ members: groupMembers })
\* (an empty slice that is not pushed is garbage and is not kept in the heap)
PushIfNonEmpty(gs, h, contents) ==
    IF Len(contents) > 0
    THEN PushGroup(gs, h, contents)
    ELSE [groups |-> gs, heap |-> h]

----------------------------------------------------------------------------
\* The run-level code at rest: no process, no call in progress.

Undefined == "<undefined>"
NoEnv == [app |-> "none", creds |-> FALSE, calendarApi |-> FALSE,
          process |-> "none", inserts |-> <<>>, cronSecret |-> Undefined,
          coffeeScheduler |-> FALSE, scheduledTask |-> 0, cron |-> <<>>,
          calls |-> <<>>]
NoFetch == [pc |-> "idle", usersList |-> <<>>, page |-> 0, pending |-> 0,
            more |-> FALSE, failed |-> FALSE, returned |-> <<>>]
NoRun == [entry |-> "none", pc |-> "idle", cmdChannel |-> "configured",
          users |-> <<>>, groups |-> <<>>, i |-> 0, message |-> <<>>,
          allEventsScheduled |-> TRUE, hasErrors |-> FALSE, meetCalls |-> 0,
          outcome |-> "none", status |-> 0, fetched |-> FALSE,
          request |-> [authorization |-> <<>>, method |-> "none"],
          links |-> <<>>]
NoDetails == [meetLink |-> FALSE, eventId |-> FALSE, error |-> "none"]
NoMeet == [pc |-> "idle", members |-> <<>>, lead |-> 0, duration |-> 0,
           client |-> FALSE, eventDetails |-> NoDetails]

RunIdle ==
    /\ env = NoEnv
    /\ fetch = NoFetch
    /\ run = NoRun
    /\ meet = NoMeet
    /\ posts = <<>>
    /\ runs = <<>>

----------------------------------------------------------------------------
\* shuffleArray: one iteration of the loop, i from length-1 down to 1.

SwapAtNoop(a, x, y) == a
SwapAt(a, x, y) == [a EXCEPT ![x + 1] = a[y + 1], ![y + 1] = a[x + 1]]

\* Where shuffleArray returns to.
AfterShuffle ==
    CASE variant = "full" -> "branch"
      [] variant = "shuffle" -> "done"
      [] OTHER -> "chunk"

\* Math.floor(Math.random() * (i + 1)): an index in 0..i.
ChoiceRangeNaive(k) == 0..(Len(heap[shuffledUsers]) - 1)
ChoiceRange(k) == 0..k

ShuffleStep ==
    /\ pc = "shuffle"
    /\ IF i > 0
       THEN \E j \in ChoiceRange(i) :
              /\ j = i \/ variant = "shuffle" \/ swaps < MaxSwaps
              /\ heap' = [heap EXCEPT ![shuffledUsers] = SwapAt(@, i, j)]
              /\ swaps' = IF j = i THEN swaps ELSE swaps + 1
              /\ choices' = Append(choices, j)
              /\ i' = i - 1
              /\ pc' = pc
       ELSE /\ pc' = AfterShuffle
            /\ i' = 0
            /\ UNCHANGED <<heap, swaps, choices>>
    /\ UNCHANGED <<previous, runVars>>
    /\ UNCHANGED <<variant, groupSize, input, shuffledUsers, groups,
                   currentIndex, redistribute, result>>

\* shuffleArray as a function of the array and of the indices drawn: c[k] is
\* the index drawn in the k-th iteration, where i = Len(a) - k.
RECURSIVE ShuffleFrom(_, _, _)
ShuffleFrom(a, c, k) ==
    IF k > Len(c) THEN a
    ELSE ShuffleFrom(SwapAt(a, Len(a) - k, c[k]), c, k + 1)

----------------------------------------------------------------------------
\* createGroups of src/unnamed/part_001.

TooFewUsersLax(n) == n = 0
TooFewUsers(n) == n = 0 \/ n = 1

\* Lines 69-75: the early returns, else copy the input and shuffle the copy.
FullEntry ==
    /\ pc = "entry" /\ variant = "full"
    /\ IF TooFewUsers(Len(heap[users]))
       THEN /\ pc' = "done"
            /\ result' = <<>>
            /\ UNCHANGED <<heap, shuffledUsers, i>>
       ELSE LET c == CopyArray(heap, users)
            IN  /\ heap' = c.heap
                /\ shuffledUsers' = c.ref
                /\ i' = Len(c.heap[c.ref]) - 1
                /\ pc' = "shuffle"
                /\ UNCHANGED result
    /\ UNCHANGED <<choices, previous, runVars>>
    /\ UNCHANGED <<variant, groupSize, input, groups, currentIndex,
                   redistribute, swaps>>

totalUsers == Len(heap[shuffledUsers])

\* Lines 83-86: two or three people form one group, returned at once.
FullSmall ==
    /\ pc = "branch" /\ totalUsers <= 3
    /\ groups' = Append(groups, [members |-> shuffledUsers])
    /\ result' = Members(groups', heap)
    /\ pc' = "done"
    /\ UNCHANGED <<choices, previous, runVars>>
    /\ UNCHANGED <<variant, groupSize, input, heap, shuffledUsers, i,
                   currentIndex, redistribute, swaps>>

FirstGroupEndShort(size) == size
FirstGroupEnd(size) == size + 1

\* Lines 89-95: remainder 1, the first group takes groupSize + 1 people.
FullRem1Start ==
    /\ pc = "branch" /\ totalUsers > 3
    /\ RemainderIs(totalUsers, groupSize, 1)
    /\ LET p == PushGroup(groups, heap,
                    Slice(heap[shuffledUsers], 0, FirstGroupEnd(groupSize)))
       IN  /\ groups' = p.groups
           /\ heap' = p.heap
    /\ currentIndex' = groupSize + 1
    /\ pc' = "rem1"
    /\ UNCHANGED <<choices, previous, runVars>>
    /\ UNCHANGED <<variant, groupSize, input, shuffledUsers, i,
                   redistribute, swaps, result>>

\* Lines 98-116: the while loop of the remainder-1 case.
FullRem1Step ==
    /\ pc = "rem1"
    /\ IF currentIndex < totalUsers
       THEN LET remainingUsers == totalUsers - currentIndex
            IN  IF remainingUsers < groupSize /\ remainingUsers < 2
                THEN LET lastPerson == Slice(heap[shuffledUsers], currentIndex,
                                             totalUsers)
                         last == Len(groups)
                         a == Alloc(heap,
                                    heap[groups[last].members] \o lastPerson)
                     IN  /\ heap' = a.heap
                         /\ groups' = [groups EXCEPT ![last].members = a.ref]
                         /\ pc' = "repair"
                         /\ UNCHANGED currentIndex
                ELSE LET p == PushIfNonEmpty(groups, heap,
                                  Slice(heap[shuffledUsers], currentIndex,
                                        currentIndex + groupSize))
                     IN  /\ groups' = p.groups
                         /\ heap' = p.heap
                         /\ currentIndex' = currentIndex + groupSize
                         /\ pc' = pc
       ELSE /\ pc' = "repair"
            /\ UNCHANGED <<groups, heap, currentIndex>>
    /\ UNCHANGED <<choices, previous, runVars>>
    /\ UNCHANGED <<variant, groupSize, input, shuffledUsers, i,
                   redistribute, swaps, result>>

\* Line 117: remainder 0.
FullRem0Start ==
    /\ pc = "branch" /\ totalUsers > 3
    /\ ~RemainderIs(totalUsers, groupSize, 1)
    /\ RemainderIs(totalUsers, groupSize, 0)
    /\ i' = 0
    /\ pc' = "rem0"
    /\ UNCHANGED <<choices, previous, runVars>>
    /\ UNCHANGED <<variant, groupSize, input, heap, shuffledUsers, groups,
                   currentIndex, redistribute, swaps, result>>

ChunkEndLong(from, size) == from + size + 1
ChunkEndStuck(from, size) == from
ChunkEnd(from, size) == from + size

\* Lines 119-124: the for loop of the perfect-division case.
FullRem0Step ==
    /\ pc = "rem0"
    /\ IF i < totalUsers
       THEN LET p == PushIfNonEmpty(groups, heap,
                         Slice(heap[shuffledUsers], i, ChunkEnd(i, groupSize)))
            IN  /\ groups' = p.groups
                /\ heap' = p.heap
                /\ i' = ChunkEnd(i, groupSize)
                /\ pc' = pc
       ELSE /\ pc' = "repair"
            /\ UNCHANGED <<groups, heap, i>>
    /\ UNCHANGED <<choices, previous, runVars>>
    /\ UNCHANGED <<variant, groupSize, input, shuffledUsers, currentIndex,
                   redistribute, swaps, result>>

\* Lines 127-128. With groupSize = 0 the remainder, and so totalLargerGroups,
\* is NaN: `i < NaN` is false and the loop of line 132 runs zero times.
TotalLargerGroupsMin(total, size) ==
    IF size = 0 THEN 0
    ELSE Min(JsMod(total, size), total \div size)
TotalLargerGroups(total, size) ==
    IF size = 0 THEN 0
    ELSE LET remainder == JsMod(total, size)
             numStandardGroups == total \div size
         IN  IF remainder > numStandardGroups THEN 1 ELSE remainder

\* Line 125: neither remainder 1 nor remainder 0.
FullElseStart ==
    /\ pc = "branch" /\ totalUsers > 3
    /\ ~RemainderIs(totalUsers, groupSize, 1)
    /\ ~RemainderIs(totalUsers, groupSize, 0)
    /\ i' = 0
    /\ currentIndex' = 0
    /\ pc' = "larger"
    /\ UNCHANGED <<choices, previous, runVars>>
    /\ UNCHANGED <<variant, groupSize, input, heap, shuffledUsers, groups,
                   redistribute, swaps, result>>

\* Lines 132-143: the larger groups, then the test that picks the tail loop.
FullLargerStep ==
    /\ pc = "larger"
    /\ IF i < TotalLargerGroups(totalUsers, groupSize)
       THEN LET p == PushGroup(groups, heap,
                         Slice(heap[shuffledUsers], currentIndex,
                               currentIndex + groupSize + 1))
            IN  /\ groups' = p.groups
                /\ heap' = p.heap
                /\ currentIndex' = currentIndex + groupSize + 1
                /\ i' = i + 1
                /\ pc' = pc
                /\ UNCHANGED redistribute
       ELSE LET remainingUsers == totalUsers - currentIndex
            IN  /\ redistribute' =
                      (/\ RemainderIs(remainingUsers, groupSize, 1)
                       /\ CeilDiv(remainingUsers, groupSize) > 1)
                /\ pc' = "tail"
                /\ UNCHANGED <<groups, heap, currentIndex, i>>
    /\ UNCHANGED <<choices, previous, runVars>>
    /\ UNCHANGED <<variant, groupSize, input, shuffledUsers, swaps, result>>

\* Lines 143-165: the remaining standard-sized groups.
FullTailStep ==
    /\ pc = "tail"
    /\ IF redistribute
       THEN IF currentIndex < totalUsers - (groupSize + 1)
            THEN LET p == PushGroup(groups, heap,
                              Slice(heap[shuffledUsers], currentIndex,
                                    currentIndex + groupSize))
                 IN  /\ groups' = p.groups
                     /\ heap' = p.heap
                     /\ currentIndex' = currentIndex + groupSize
                     /\ pc' = pc
            ELSE LET p == PushIfNonEmpty(groups, heap,
                              Slice(heap[shuffledUsers], currentIndex,
                                    totalUsers))
                 IN  /\ groups' = p.groups
                     /\ heap' = p.heap
                     /\ pc' = "repair"
                     /\ UNCHANGED currentIndex
       ELSE IF currentIndex < totalUsers
            THEN LET p == PushIfNonEmpty(groups, heap,
                              Slice(heap[shuffledUsers], currentIndex,
                                    currentIndex + groupSize))
                 IN  /\ groups' = p.groups
                     /\ heap' = p.heap
                     /\ currentIndex' = currentIndex + groupSize
                     /\ pc' = pc
            ELSE /\ pc' = "repair"
                 /\ UNCHANGED <<groups, heap, currentIndex>>
    /\ UNCHANGED <<choices, previous, runVars>>
    /\ UNCHANGED <<variant, groupSize, input, shuffledUsers, i,
                   redistribute, swaps, result>>

\* Lines 169-186: the final safety check. Single-person groups are removed
\* and their members pushed onto the other groups, cycling by index.
RECURSIVE PushPersonsFirst(_, _, _, _)
PushPersonsFirst(h, validGroups, singlePersons, index) ==
    IF index >= Len(singlePersons) THEN h
    ELSE IF Len(validGroups) > 0
         THEN LET r == validGroups[1].members
              IN  PushPersonsFirst(
                      [h EXCEPT ![r] = Append(@, singlePersons[index + 1])],
                      validGroups, singlePersons, index + 1)
         ELSE PushPersonsFirst(h, validGroups, singlePersons, index + 1)

RECURSIVE PushPersons(_, _, _, _)
PushPersons(h, validGroups, singlePersons, index) ==
    IF index >= Len(singlePersons) THEN h
    ELSE IF Len(validGroups) > 0
         THEN LET targetGroupIndex == index % Len(validGroups)
                  r == validGroups[targetGroupIndex + 1].members
              IN  PushPersons([h EXCEPT ![r] = Append(@, singlePersons[index + 1])],
                              validGroups, singlePersons, index + 1)
         ELSE PushPersons(h, validGroups, singlePersons, index + 1)

RepairPassNone(gs, h) == [groups |-> gs, heap |-> h]
RepairPassLaxFilter(gs, h) ==
    LET IsSingle(g) == Len(h[g.members]) = 1
        IsValid(g) == Len(h[g.members]) >= 1
        singlePersonGroups == SelectSeq(gs, IsSingle)
    IN  IF Len(singlePersonGroups) > 0
        THEN LET validGroups == SelectSeq(gs, IsValid)
                 singlePersons ==
                     [k \in 1..Len(singlePersonGroups) |->
                         h[singlePersonGroups[k].members][1]]
             IN  [groups |-> validGroups,
                  heap |-> PushPersons(h, validGroups, singlePersons, 0)]
        ELSE [groups |-> gs, heap |-> h]
RepairPass(gs, h) ==
    LET IsSingle(g) == Len(h[g.members]) = 1
        IsValid(g) == Len(h[g.members]) > 1
        singlePersonGroups == SelectSeq(gs, IsSingle)
    IN  IF Len(singlePersonGroups) > 0
        THEN LET validGroups == SelectSeq(gs, IsValid)
                 singlePersons ==
                     [k \in 1..Len(singlePersonGroups) |->
                         h[singlePersonGroups[k].members][1]]
             IN  [groups |-> validGroups,
                  heap |-> PushPersons(h, validGroups, singlePersons, 0)]
        ELSE [groups |-> gs, heap |-> h]

\* Lines 168-189: run the safety check and return the groups.
FullRepair ==
    /\ pc = "repair"
    /\ LET f == RepairPass(groups, heap)
       IN  /\ groups' = f.groups
           /\ heap' = f.heap
           /\ result' = Members(f.groups, f.heap)
    /\ pc' = "done"
    /\ UNCHANGED <<choices, previous, runVars>>
    /\ UNCHANGED <<variant, groupSize, input, shuffledUsers, i, currentIndex,
                   redistribute, swaps>>

----------------------------------------------------------------------------
\* createGroups of src/src/utils.ts.

\* Lines 68-70: empty input returns at once, else copy and shuffle.
SimpleEntry ==
    /\ pc = "entry" /\ variant = "simple"
    /\ IF Len(heap[users]) = 0
       THEN /\ pc' = "done"
            /\ result' = <<>>
            /\ UNCHANGED <<heap, shuffledUsers, i>>
       ELSE LET c == CopyArray(heap, users)
            IN  /\ heap' = c.heap
                /\ shuffledUsers' = c.ref
                /\ i' = Len(c.heap[c.ref]) - 1
                /\ pc' = "shuffle"
                /\ UNCHANGED result
    /\ UNCHANGED <<choices, previous, runVars>>
    /\ UNCHANGED <<variant, groupSize, input, groups, currentIndex,
                   redistribute, swaps>>

\* Lines 72-77: the chunking loop.
SimpleChunkStep ==
    /\ pc = "chunk"
    /\ IF i < totalUsers
       THEN LET p == PushIfNonEmpty(groups, heap,
                         Slice(heap[shuffledUsers], i, i + groupSize))
            IN  /\ groups' = p.groups
                /\ heap' = p.heap
                /\ i' = i + groupSize
                /\ pc' = pc
       ELSE /\ pc' = "merge"
            /\ UNCHANGED <<groups, heap, i>>
    /\ UNCHANGED <<choices, previous, runVars>>
    /\ UNCHANGED <<variant, groupSize, input, shuffledUsers, currentIndex,
                   redistribute, swaps, result>>

\* Lines 83-94: a last group of one is merged into the previous group when
\* groupSize > 2; then the groups are returned.
MergeLastNever(n, lastLen, size) == FALSE
MergeLast(n, lastLen, size) == n > 1 /\ lastLen = 1 /\ size > 2

SimpleMerge ==
    /\ pc = "merge"
    /\ LET n == Len(groups)
       IN  IF n > 0 /\ MergeLast(n, Len(heap[groups[n].members]), groupSize)
           THEN /\ heap' = [heap EXCEPT ![groups[n - 1].members] =
                                @ \o heap[groups[n].members]]
                /\ groups' = SubSeq(groups, 1, n - 1)
           ELSE UNCHANGED <<groups, heap>>
    /\ result' = Members(groups', heap')
    /\ pc' = "done"
    /\ UNCHANGED <<choices, previous, runVars>>
    /\ UNCHANGED <<variant, groupSize, input, shuffledUsers, i, currentIndex,
                   redistribute, swaps>>

----------------------------------------------------------------------------
\* A call: users holds N distinct participants, any groupSize.

Call(maxUsers) ==
    /\ variant \in {"full", "simple"}
    /\ groupSize \in 0..MaxGroupSize
    /\ \E n \in 0..maxUsers :
         /\ input = [k \in 1..n |-> k]
         /\ heap = <<[k \in 1..n |-> k]>>
    /\ shuffledUsers = 0
    /\ groups = <<>>
    /\ i = 0
    /\ currentIndex = 0
    /\ redistribute = FALSE
    /\ swaps = 0
    /\ pc = "entry"
    /\ result = <<>>
    /\ choices = <<>>
    /\ previous = <<>>
    /\ RunIdle

Init == Call(MaxUsers)

Next ==
    \/ FullEntry
    \/ ShuffleStep
    \/ FullSmall
    \/ FullRem1Start
    \/ FullRem1Step
    \/ FullRem0Start
    \/ FullRem0Step
    \/ FullElseStart
    \/ FullLargerStep
    \/ FullTailStep
    \/ FullRepair
    \/ SimpleEntry
    \/ SimpleChunkStep
    \/ SimpleMerge

Spec == Init /\ [][Next]_vars

\* The event loop runs a started call to completion: no step is postponed
\* forever.
FairSpec == Call(MaxFairUsers) /\ [][Next]_vars /\ WF_vars(Next)

----------------------------------------------------------------------------
\* The final safety check on its own, applied to any list of non-empty
\* groups (and then applied again to its own output).

RECURSIVE Offset(_, _)
Offset(sizes, k) == IF k <= 1 THEN 0 ELSE Offset(sizes, k - 1) + sizes[k - 1]

RECURSIVE Sum(_, _)
Sum(sizes, k) == IF k = 0 THEN 0 ELSE Sum(sizes, k - 1) + sizes[k]

RepairInit ==
    /\ variant = "repair"
    /\ groupSize = 0
    /\ \E n \in 0..MaxRepairGroups :
         \E sizes \in [1..n -> 1..MaxRepairSize] :
            /\ input = [k \in 1..Sum(sizes, n) |-> k]
            /\ heap = <<[k \in 1..Sum(sizes, n) |-> k]>> \o
                      [g \in 1..n |->
                         [m \in 1..sizes[g] |-> Offset(sizes, g) + m]]
            /\ groups = [g \in 1..n |-> [members |-> g + 1]]
    /\ shuffledUsers = users
    /\ i = 0
    /\ currentIndex = 0
    /\ redistribute = FALSE
    /\ swaps = 0
    /\ pc = "repair"
    /\ result = <<>>
    /\ choices = <<>>
    /\ previous = <<>>
    /\ RunIdle

\* The pass applied to the list an earlier pass returned.
RepairAgain ==
    /\ pc = "done" /\ variant = "repair" /\ i = 0
    /\ LET f == RepairPass(groups, heap)
       IN  /\ groups' = f.groups
           /\ heap' = f.heap
    /\ i' = 1
    /\ UNCHANGED <<choices, previous, runVars>>
    /\ UNCHANGED <<choices, previous, runVars>>
    /\ UNCHANGED <<variant, groupSize, input, shuffledUsers, currentIndex,
                   redistribute, swaps, pc, result>>

RepairNext == FullRepair \/ RepairAgain

RepairSpec == RepairInit /\ [][RepairNext]_vars

----------------------------------------------------------------------------
\* Vocabulary of the properties.

Sizes(r) == [k \in 1..Len(r) |-> Len(r[k])]

RECURSIVE Flatten(_)
Flatten(r) == IF Len(r) = 0 THEN <<>> ELSE Head(r) \o Flatten(Tail(r))

Occurrences(s, x) == Cardinality({k \in 1..Len(s) : s[k] = x})

\* The groups r hold every element of the sequence s exactly once, and
\* nothing else.
IsPartition(r, s) ==
    LET flat == Flatten(r)
    IN  /\ Len(flat) = Len(s)
        /\ \A k \in 1..Len(s) : Occurrences(flat, s[k]) = 1

NoSmallGroup(r) == \A k \in 1..Len(r) : Len(r[k]) >= 2

CountOfSize(r, n) == Cardinality({k \in 1..Len(r) : Len(r[k]) = n})

\* Sizes of consecutive chunks of `size` taken from m elements.
ChunkSizes(m, size) ==
    IF m <= 0 THEN <<>>
    ELSE [k \in 1..CeilDiv(m, size) |->
             IF k * size <= m THEN size ELSE m - (k - 1) * size]

Repeat(n, x) == [k \in 1..n |-> x]

N == Len(input)

FullReturned == variant = "full" /\ pc = "done"
SimpleReturned == variant = "simple" /\ pc = "done"

----------------------------------------------------------------------------
\* C1. createGroups of part_001, N >= 2 participants, targetSize >= 2: every
\* returned group has at least 2 members and the groups are a partition of
\* the input (everyone exactly once, no one else).
C1_FullPartition ==
    (FullReturned /\ N >= 2 /\ groupSize >= 2)
        => (NoSmallGroup(result) /\ IsPartition(result, input))

\* N = 5, targetSize = 3: the branch gives sizes 4 and 1 and the safety check
\* merges them.
C1_Witness ==
    /\ FullReturned /\ N = 5 /\ groupSize = 3 /\ swaps = 1
    /\ Sizes(result) = <<5>>

\* C2. createGroups of src/src/utils.ts, N >= 0, groupSize >= 2: every
\* returned group has at least 2 members, or the list is empty.
C2_SimpleNoSmallGroup ==
    (SimpleReturned /\ groupSize >= 2) => NoSmallGroup(result)

\* C3. createGroups of part_001 returns the empty list for 0 participants
\* and for 1 participant, whatever targetSize >= 2.
C3_FullEmptyBelowTwo ==
    (FullReturned /\ N <= 1 /\ groupSize >= 2) => result = <<>>

C3_Witness == FullReturned /\ N = 1 /\ groupSize = 3 /\ result = <<>>

\* C4. createGroups of part_001, N >= 2, targetSize >= 2 and N a multiple of
\* targetSize: the result is exactly N/targetSize groups, the k-th being the
\* k-th consecutive chunk of targetSize members of the shuffled order.
C4_FullExactDivision ==
    (FullReturned /\ N >= 2 /\ groupSize >= 2 /\ N % groupSize = 0)
        => /\ Len(result) = N \div groupSize
           /\ \A k \in 1..Len(result) :
                result[k] = SubSeq(heap[shuffledUsers],
                                   (k - 1) * groupSize + 1, k * groupSize)

C4_Witness ==
    /\ FullReturned /\ N = 6 /\ groupSize = 3 /\ swaps = 1
    /\ Sizes(result) = <<3, 3>>

ElseCaseChunked ==
    /\ variant = "full" /\ pc = "repair"
    /\ N >= 4 /\ groupSize >= 2 /\ N % groupSize >= 2

\* C6 as stated: in the else case, before the safety check, exactly
\* min(remainder, floor(N/targetSize)) groups have targetSize + 1 members and
\* the remaining members are chunked at targetSize.
C6_ElseEnlargesMin ==
    ElseCaseChunked
        => LET enlarged == Min(N % groupSize, N \div groupSize)
           IN  Sizes(Members(groups, heap)) =
                   Repeat(enlarged, groupSize + 1) \o
                   ChunkSizes(N - enlarged * (groupSize + 1), groupSize)

\* C6 amended: in the else case, before the safety check, the number of
\* groups of targetSize + 1 members is the remainder when the remainder is
\* at most floor(N/targetSize), and otherwise 1 (0 when N < targetSize); the
\* remaining members are chunked at targetSize, in the shuffled order.
C6_ElseEnlargesOneOrRemainder ==
    ElseCaseChunked
        => LET remainder == N % groupSize
               numStandardGroups == N \div groupSize
               enlarged == IF remainder <= numStandardGroups THEN remainder
                           ELSE Min(1, numStandardGroups)
           IN  /\ Sizes(Members(groups, heap)) =
                     Repeat(enlarged, groupSize + 1) \o
                     ChunkSizes(N - enlarged * (groupSize + 1), groupSize)
               /\ Flatten(Members(groups, heap)) = heap[shuffledUsers]

C6_Witness ==
    /\ ElseCaseChunked /\ N = 11 /\ groupSize = 4
    /\ Sizes(Members(groups, heap)) = <<5, 4, 2>>

\* C7. The safety check applied to any list of non-empty groups returns a
\* list with no group of fewer than 2 members, and applying it again to its
\* own output changes nothing.
C7_RepairNoSmallGroupIdempotent ==
    (variant = "repair" /\ pc = "done")
        => /\ NoSmallGroup(Members(groups, heap))
           /\ i = 1 => Members(groups, heap) = result

\* Groups [1], [2,3], [4], [5,6]: both singletons are dissolved, and the
\* second pass has run.
C7_Witness ==
    /\ variant = "repair" /\ pc = "done" /\ i = 1
    /\ result = <<<<2, 3, 1>>, <<5, 6, 4>>>>

\* C8. createGroups called with targetSize < 2 does not return groups (it
\* fails with InvalidArgument), in both variants. Stated for calls with at
\* least two participants: with fewer, part_001 returns [] before it reads
\* groupSize.
C8_SmallTargetRejected ==
    (variant \in {"full", "simple"} /\ groupSize < 2 /\ N >= 2)
        => pc # "done"

\* C9. For every N >= 0 and targetSize >= 2, createGroups terminates: every
\* call returns.
C9_Terminates == (groupSize >= 2) ~> (pc = "done")

C9_Witness ==
    /\ FullReturned /\ N = 7 /\ groupSize = 4 /\ Sizes(result) = <<5, 2>>

\* C10. createGroups has no side effect on its input: the caller's array
\* holds the same elements in the same order at every point of the call and
\* after it, and no returned group shares its member array with the caller's
\* array, so no push onto a group can reach it.
C10_InputUntouched ==
    /\ heap[users] = input
    /\ \A k \in 1..Len(groups) : groups[k].members # users

\* utils.ts, N = 4, groupSize = 3: the shuffle swapped two elements of the
\* copy and the merge pushed the last member onto the first group.
C10_Witness ==
    /\ SimpleReturned /\ N = 4 /\ groupSize = 3 /\ swaps = 1
    /\ Sizes(result) = <<4>>
    /\ heap[shuffledUsers] # input

----------------------------------------------------------------------------
\* shuffleArray on its own: any array of distinct elements, every draw.

ShuffleInit ==
    /\ variant = "shuffle"
    /\ groupSize = 0
    /\ \E n \in 0..MaxShuffleLen :
         /\ input = [k \in 1..n |-> k]
         /\ heap = <<[k \in 1..n |-> k], [k \in 1..n |-> k]>>
         /\ i = n - 1
    /\ shuffledUsers = 2
    /\ groups = <<>>
    /\ currentIndex = 0
    /\ redistribute = FALSE
    /\ swaps = 0
    /\ pc = "shuffle"
    /\ result = <<>>
    /\ choices = <<>>
    /\ previous = <<>>
    /\ RunIdle

ShuffleNext == ShuffleStep

ShuffleSpec == ShuffleInit /\ [][ShuffleNext]_vars

\* The sequences of draws the loop can make on an array of n elements.
ChoiceSeqs(n) ==
    IF n <= 1 THEN {<<>>}
    ELSE {c \in [1..(n - 1) -> 0..(n - 1)] :
             \A k \in 1..(n - 1) : c[k] \in ChoiceRange(n - k)}

RECURSIVE Factorial(_)
Factorial(n) == IF n <= 1 THEN 1 ELSE n * Factorial(n - 1)

IsPermutationOf(a, b) ==
    /\ Len(a) = Len(b)
    /\ \A k \in 1..Len(b) : Occurrences(a, b[k]) = 1

\* C11. shuffleArray returns a permutation of its input, and the map from
\* the sequences of draws (j in 0..i for i = n-1 down to 1) to orderings is
\* a bijection onto the n! orderings: the returned ordering is the image of
\* the draws made, no other sequence of draws gives it, and the images of
\* all sequences are n! different orderings.
C11_ShuffleBijection ==
    (variant = "shuffle" /\ pc = "done")
        => /\ IsPermutationOf(heap[shuffledUsers], input)
           /\ heap[users] = input
           /\ choices \in ChoiceSeqs(N)
           /\ heap[shuffledUsers] = ShuffleFrom(input, choices, 1)
           /\ \A c \in ChoiceSeqs(N) :
                ShuffleFrom(input, c, 1) = heap[shuffledUsers] => c = choices
           /\ Cardinality({ShuffleFrom(input, c, 1) : c \in ChoiceSeqs(N)})
                = Factorial(N)
           /\ Cardinality(ChoiceSeqs(N)) = Factorial(N)

\* Four elements reversed by the draws 0, 1, 1.
C11_Witness ==
    /\ variant = "shuffle" /\ pc = "done"
    /\ choices = <<0, 1, 1>>
    /\ heap[shuffledUsers] = <<4, 3, 2, 1>>

----------------------------------------------------------------------------
\* Two invocations of createGroups on the same array, one after the other.

\* The caller keeps what the first call returned and calls again with the
\* array it passed before.
Reinvoke ==
    /\ pc = "done" /\ variant \in {"full", "simple"}
    /\ previous = <<>>
    /\ previous' = <<[result |-> result, choices |-> choices]>>
    /\ heap' = <<heap[users]>>
    /\ shuffledUsers' = 0
    /\ groups' = <<>>
    /\ i' = 0
    /\ currentIndex' = 0
    /\ redistribute' = FALSE
    /\ swaps' = 0
    /\ pc' = "entry"
    /\ result' = <<>>
    /\ choices' = <<>>
    /\ UNCHANGED <<variant, groupSize, input, runVars>>

RandInit == Call(MaxRandUsers)

RandNext == Next \/ Reinvoke

RandSpec == RandInit /\ [][RandNext]_vars

Range(a) == {a[k] : k \in 1..Len(a)}

\* A grouping as a set partition of the participants.
AsPartition(r) == {Range(r[g]) : g \in 1..Len(r)}

Together(r, x, y) == \E g \in 1..Len(r) : x \in Range(r[g]) /\ y \in Range(r[g])

\* The draws that leave an array of n elements as it is.
NoExchange(c, n) == \A k \in 1..Len(c) : c[k] = n - k

\* The draws whose only exchange is the k-th: positions n-k and c[k].
OneExchange(c, n, k) ==
    /\ k \in 1..Len(c)
    /\ c[k] # n - k
    /\ \A l \in 1..Len(c) : l # k => c[l] = n - l

SecondReturned == variant = "full" /\ pc = "done" /\ previous # <<>>

\* C12 as stated. For every input of size >= 4 and targetSize >= 2 two
\* invocations can return groupings that differ as set partitions: the
\* grouping returned separates some two participants (a grouping that is the
\* one group of all participants is the same partition for every shuffle).
C12_TwoRunsCanDiffer ==
    (SecondReturned /\ N >= 4 /\ groupSize >= 2)
        => \E x \in 1..N, y \in 1..N : ~Together(result, x, y)

\* C12, amended. The sizes of the returned groups do not depend on the
\* shuffle; when one group is returned the two invocations return the same
\* partition; and when the first invocation drew no exchange and the second
\* drew one exchange of two participants that the first grouping separates,
\* the two groupings differ as set partitions.
C12_TwoRunsDifferAcrossGroups ==
    (SecondReturned /\ N >= 4 /\ groupSize >= 2)
        => LET first == previous[1]
           IN  /\ Sizes(result) = Sizes(first.result)
               /\ Len(result) = 1
                    => AsPartition(result) = AsPartition(first.result)
               /\ \A k \in 1..Len(choices) :
                    ( /\ NoExchange(first.choices, N)
                      /\ OneExchange(choices, N, k)
                      /\ ~Together(first.result, N - k + 1, choices[k] + 1) )
                        => AsPartition(result) # AsPartition(first.result)

\* Five participants, targetSize 2: the first call returns {1,2,3},{4,5} and
\* the second, having exchanged participants 5 and 1, {5,2,3},{4,1}.
C12_Witness ==
    /\ SecondReturned /\ N = 5 /\ groupSize = 2
    /\ NoExchange(previous[1].choices, N)
    /\ OneExchange(choices, N, 1) /\ choices[1] = 0
    /\ AsPartition(previous[1].result) = {{1, 2, 3}, {4, 5}}
    /\ AsPartition(result) = {{5, 2, 3}, {4, 1}}

----------------------------------------------------------------------------
\* createGoogleMeetEvent of src/src/utils.ts.

\* The state of createGroups.
groupVars == <<variant, groupSize, input, heap, shuffledUsers, groups, i,
               currentIndex, redistribute, swaps, pc, result, choices,
               previous>>

\* createGroups not called.
NoCall(v) ==
    /\ variant = v
    /\ groupSize = 0
    /\ input = <<>>
    /\ heap = <<>>
    /\ shuffledUsers = 0
    /\ groups = <<>>
    /\ i = 0
    /\ currentIndex = 0
    /\ redistribute = FALSE
    /\ swaps = 0
    /\ pc = "idle"
    /\ result = <<>>
    /\ choices = <<>>
    /\ previous = <<>>

HasEmail(m) == m.email

\* group.members.every(member => member.email)
SomeHaveEmail(members) == \E k \in 1..Len(members) : HasEmail(members[k])
AllHaveEmail(members) == \A k \in 1..Len(members) : HasEmail(members[k])

\* group.members.filter(member => member.email)
Attendees(members) == SelectSeq(members, HasEmail)

ErrorResult(e) == [meetLink |-> FALSE, eventId |-> FALSE, error |-> e]

\* The checks before the request, and the request itself.
MeetEnter ==
    /\ meet.pc = "called"
    /\ IF ~meet.client
       THEN /\ meet' = [meet EXCEPT !.pc = "returned",
                           !.eventDetails = ErrorResult("notInitialized")]
            /\ env' = env
       ELSE IF ~AllHaveEmail(meet.members)
       THEN /\ meet' = [meet EXCEPT !.pc = "returned",
                           !.eventDetails = ErrorResult("missingEmail")]
            /\ env' = env
       ELSE IF Len(Attendees(meet.members)) = 0
       THEN /\ meet' = [meet EXCEPT !.pc = "returned",
                           !.eventDetails = ErrorResult("noAttendees")]
            /\ env' = env
       ELSE /\ meet' = [meet EXCEPT !.pc = "inserting"]
            /\ env' = [env EXCEPT !.inserts =
                         Append(@, [attendees |-> Attendees(meet.members),
                                    of |-> Len(meet.members),
                                    lead |-> meet.lead,
                                    duration |-> meet.duration,
                                    outcome |-> "pending"])]
    /\ UNCHANGED <<groupVars, runs, fetch, run, posts>>

\* calendarApi.events.insert resolves with the created event, with or
\* without a hangoutLink, or rejects.
MeetInsertDone ==
    /\ meet.pc = "inserting"
    /\ \E outcome \in {"ok", "nolink", "throw"} :
         /\ env' = [env EXCEPT !.inserts[Len(env.inserts)].outcome = outcome]
         /\ meet' = [meet EXCEPT !.pc = "returned",
                    !.eventDetails =
                        CASE outcome = "ok" ->
                               [meetLink |-> TRUE, eventId |-> TRUE,
                                error |-> "none"]
                          [] outcome = "nolink" ->
                               [meetLink |-> FALSE, eventId |-> TRUE,
                                error |-> "none"]
                          [] OTHER -> ErrorResult("insertFailed")]
    /\ UNCHANGED <<groupVars, runs, fetch, run, posts>>

\* The duration the scheduler books (meetDuration).
meetDuration == 15
\* The minutes between the run and the start the scheduler books.
SchedulerLead == 15

\* createGoogleMeetEvent on its own: any group, any client.
MeetInit ==
    /\ NoCall("meet")
    /\ env = NoEnv
    /\ fetch = NoFetch
    /\ run = NoRun
    /\ posts = <<>>
    /\ runs = <<>>
    /\ \E n \in 0..MaxMeetMembers :
         \E e \in [1..n -> BOOLEAN], c \in BOOLEAN :
            meet = [pc |-> "called",
                    members |-> [k \in 1..n |-> [id |-> k, email |-> e[k]]],
                    lead |-> SchedulerLead,
                    duration |-> meetDuration,
                    client |-> c,
                    eventDetails |-> NoDetails]

MeetNext == MeetEnter \/ MeetInsertDone

MeetSpec == MeetInit /\ [][MeetNext]_vars

----------------------------------------------------------------------------
\* getChannelMembers of src/src/utils.ts. A collected user is represented by
\* whether its profile has an email; its id is its position in the list.

FetchCalled == [pc |-> "page", usersList |-> <<>>, page |-> 0, pending |-> 0,
                more |-> FALSE, failed |-> FALSE, returned |-> <<>>]

\* What the function returns when a request fails: return [].
OnFetchFailurePartial(usersList) == usersList
OnFetchFailure(usersList) == <<>>

FetchFails ==
    fetch' = [fetch EXCEPT !.pc = "returned", !.failed = TRUE,
                !.returned = OnFetchFailure(fetch.usersList)]

NoEmailCount(usersList) == Len(SelectSeq(usersList, LAMBDA e : ~e))

\* await client.conversations.members: it rejects, resolves not ok or
\* without members, or resolves with a page of member ids and a cursor.
FetchPage ==
    /\ fetch.pc = "page"
    /\ \E outcome \in {"throw", "notok", "ok"} :
         IF outcome # "ok"
         THEN FetchFails
         ELSE \E k \in 0..MaxPageMembers, more \in BOOLEAN :
                /\ more => fetch.page + 1 < MaxPages
                /\ fetch' = [fetch EXCEPT !.pc = "info", !.page = @ + 1,
                               !.pending = k, !.more = more]
    /\ UNCHANGED <<groupVars, runs, env, run, meet, posts>>

\* await client.users.info for the next member id of the page: it rejects,
\* or the member is skipped (not ok, a bot, deleted), or pushed.
FetchInfo ==
    /\ fetch.pc = "info"
    /\ fetch.pending > 0
    /\ \E outcome \in {"throw", "skip", "email", "noemail"} :
         CASE outcome = "throw" -> FetchFails
           [] outcome = "skip" -> fetch' = [fetch EXCEPT !.pending = @ - 1]
           [] OTHER ->
                /\ Len(fetch.usersList) < MaxRunUsers
                /\ outcome = "noemail"
                     => NoEmailCount(fetch.usersList) < MaxNoEmail
                /\ fetch' = [fetch EXCEPT !.pending = @ - 1,
                               !.usersList = Append(@, outcome = "email")]
    /\ UNCHANGED <<groupVars, runs, env, run, meet, posts>>

\* cursor = next_cursor; while (cursor); return usersList.
FetchCursor ==
    /\ fetch.pc = "info"
    /\ fetch.pending = 0
    /\ IF fetch.more
       THEN fetch' = [fetch EXCEPT !.pc = "page"]
       ELSE fetch' = [fetch EXCEPT !.pc = "returned",
                        !.returned = fetch.usersList]
    /\ UNCHANGED <<groupVars, runs, env, run, meet, posts>>

\* getChannelMembers on its own.
FetchInit ==
    /\ NoCall("fetch")
    /\ env = NoEnv
    /\ fetch = FetchCalled
    /\ run = NoRun
    /\ meet = NoMeet
    /\ posts = <<>>
    /\ runs = <<>>

FetchNext == FetchPage \/ FetchInfo \/ FetchCursor

FetchSpec == FetchInit /\ [][FetchNext]_vars

\* C14. getChannelMembers soft-fails: when a page request resolves not ok or
\* without members, or a request rejects, on the first page or on a later one
\* after users were collected, it returns the empty list, never a partial
\* one, and it always returns (it has no outcome but a returned list).
C14_FetchSoftFails ==
    /\ fetch.pc \in {"idle", "page", "info", "returned"}
    /\ (fetch.pc = "returned" /\ fetch.failed) => fetch.returned = <<>>
    /\ (fetch.pc = "returned" /\ ~fetch.failed)
         => fetch.returned = fetch.usersList
    /\ fetch.failed => fetch.pc = "returned"

\* The second page request fails after two users were collected from the
\* first.
C14_Witness ==
    /\ variant = "fetch"
    /\ fetch.pc = "returned" /\ fetch.failed
    /\ fetch.page = 1 /\ fetch.pending = 0 /\ fetch.more
    /\ Len(fetch.usersList) = 2
    /\ fetch.returned = <<>>

----------------------------------------------------------------------------
\* The process and its entry points: CoffeeScheduler.triggerCoffeeShuffle
\* (src/unnamed/part_003), the /swift-coffees-generate handler
\* (src/unnamed/part_000) and the /api/coffee-shuffle handler
\* (src/unnamed/part_005). The Slack configuration is present throughout.

GROUP_SIZE == 3
MEET_DURATION == 15
MINUTES_UNTIL_START == 15

\* The scheduler. env.coffeeScheduler says that the global holds a
\* CoffeeScheduler, env.scheduledTask is its field (0 for null, else the
\* number of a cron task) and env.cron lists the tasks cron.schedule has
\* created, each "live" or "stopped".

\* stopSchedule: the held task is stopped and dropped.
stopScheduleNoop(e) == e
stopSchedule(e) ==
    IF e.scheduledTask # 0
    THEN [e EXCEPT !.cron[e.scheduledTask] = "stopped", !.scheduledTask = 0]
    ELSE e

\* startWeeklySchedule: this.stopSchedule(), then cron.schedule.
startWeeklySchedule(e) ==
    LET s == stopSchedule(e)
    IN  [s EXCEPT !.cron = Append(s.cron, "live"),
                  !.scheduledTask = Len(s.cron) + 1]

\* getScheduleInfo.
getScheduleInfo(e) ==
    IF e.scheduledTask # 0 THEN "scheduled" ELSE "notScheduled"

\* Startup, with SLACK_CHANNEL_ID set: new CoffeeScheduler, then
\* startWeeklySchedule.
StartScheduler(e) ==
    startWeeklySchedule([e EXCEPT !.coffeeScheduler = TRUE,
                                  !.scheduledTask = 0])

\* /swift-coffees-trigger-now: a scheduler is constructed when the global
\* holds none; no schedule is started.
EnsureSchedulerRestarts(e) == StartScheduler(e)
EnsureScheduler(e) ==
    IF ~e.coffeeScheduler
    THEN [e EXCEPT !.coffeeScheduler = TRUE, !.scheduledTask = 0]
    ELSE e

\* The start of the process. The variant with the health server exits when
\* GOOGLE_SERVICE_ACCOUNT_JSON is not set; otherwise the calendar client is
\* created when credentials are set, and stays null when that fails; after
\* app.start() the scheduler is constructed and its weekly schedule started.
Startup ==
    /\ env.process = "booting"
    /\ IF env.app = "health" /\ ~env.creds
       THEN env' = [env EXCEPT !.process = "exited"]
       ELSE \E api \in BOOLEAN :
              /\ api => env.creds
              /\ env' = IF env.app = "serverless"
                        THEN [env EXCEPT !.calendarApi = api,
                                !.process = "running"]
                        ELSE [StartScheduler(env) EXCEPT
                                !.calendarApi = api, !.process = "running"]
    /\ UNCHANGED <<groupVars, runs, fetch, run, meet, posts>>

StartRun(e, ch) == [NoRun EXCEPT !.entry = e, !.pc = "fetching",
                      !.cmdChannel = ch]

\* chat.postMessage, say or respond, settled: ok or rejected.
Send(kind, to, ok, body) ==
    posts' = Append(posts, [kind |-> kind, to |-> to, ok |-> ok,
                            body |-> body])

\* The scheduler's postToChannel catches what chat.postMessage throws; the
\* API handler's rethrows it, and say and respond are awaited bare.
PostToChannelRethrows(e) == FALSE
PostToChannelSwallows(e) == e = "trigger"

\* Where control goes after a post made inside the try block.
AfterPost(e, ok) == IF ok \/ PostToChannelSwallows(e) THEN "done" ELSE "catch"

Settle(r, next, status) ==
    [r EXCEPT !.pc = next,
              !.outcome = IF next = "done" THEN "resolved" ELSE "none",
              !.status = IF next = "done" /\ r.entry = "api"
                         THEN status ELSE 0]

\* users.length < 2 is reported and ends the run.
EnoughUsersLax(n) == n >= 1
EnoughUsers(n) == n >= 2

\* Where the 'not enough users' and 'could not form' reports go.
ReportTo(e) == IF e = "generate" THEN "user" ELSE "channel"

\* Where the summary goes.
SummaryTo(r) ==
    IF r.entry = "generate"
    THEN IF r.hasErrors THEN "user"
         ELSE IF r.cmdChannel = "configured" THEN "channel"
         ELSE "otherChannel"
    ELSE "channel"

\* The condition under which the loop books.
BookingEnabled(e) ==
    IF e = "generate" THEN env.calendarApi /\ env.creds ELSE env.calendarApi

LeadMinutes(e) == IF e = "trigger" THEN SchedulerLead ELSE MINUTES_UNTIL_START
DurationMinutes(e) == IF e = "trigger" THEN meetDuration ELSE MEET_DURATION

\* The loop index after a group: i++.
NextIndexAbort(k, failed) == IF failed THEN Len(run.groups) + 1 ELSE k + 1
NextIndex(k, failed) == k + 1

\* The cron callback or /swift-coffees-trigger-now calls
\* triggerCoffeeShuffle, which awaits getChannelMembers.
TriggerStart ==
    /\ env.process = "running" /\ env.app \in {"bot", "health"}
    /\ run.pc = "idle"
    /\ env' = EnsureScheduler(env)
    /\ run' = StartRun("trigger", "configured")
    /\ fetch' = FetchCalled
    /\ UNCHANGED <<groupVars, runs, meet, posts>>

\* /swift-coffees-generate, used in the configured channel or in another:
\* it refuses when credentials are set and the client is null, else awaits
\* getChannelMembers.
GenerateStart ==
    /\ env.process = "running" /\ env.app \in {"bot", "health"}
    /\ run.pc = "idle"
    /\ \E ch \in {"configured", "other"} :
         IF env.creds /\ ~env.calendarApi
         THEN \E ok \in BOOLEAN :
                /\ Send("notInitialized", "user", ok, <<>>)
                /\ run' = [StartRun("generate", ch) EXCEPT !.pc = "done",
                             !.outcome = IF ok THEN "resolved"
                                         ELSE "rejected"]
                /\ fetch' = fetch
         ELSE /\ run' = StartRun("generate", ch)
              /\ fetch' = FetchCalled
              /\ posts' = posts
    /\ UNCHANGED <<groupVars, runs, env, meet>>

\* `${CRON_SECRET}`: an undefined value is written as "undefined".
Interpolate(secret) == IF secret = Undefined THEN "undefined" ELSE secret

\* `Bearer ${CRON_SECRET}`, as the scheme and the token.
BearerOf(secret) == <<"Bearer", Interpolate(secret)>>

\* The Authorization headers a request can carry: none (the empty tuple),
\* or a bearer token.
Headers ==
    {<<>>} \cup {<<"Bearer", t>> : t \in {"s3cret", "undefined", "other"}}

\* GET /api/coffee-shuffle: the secret and the method are checked, the
\* calendar client is created when credentials are set, then
\* getChannelMembers is awaited.
ApiStart ==
    /\ env.process = "running" /\ env.app = "serverless"
    /\ run.pc = "idle"
    /\ \E authorization \in Headers, method \in {"GET", "POST"} :
         LET r == [StartRun("api", "configured") EXCEPT
                      !.request = [authorization |-> authorization,
                                   method |-> method]]
         IN  IF authorization # BearerOf(env.cronSecret)
             THEN /\ run' = [r EXCEPT !.pc = "done",
                               !.outcome = "resolved", !.status = 401]
                  /\ UNCHANGED <<env, fetch>>
             ELSE IF method # "GET"
             THEN /\ run' = [r EXCEPT !.pc = "done",
                               !.outcome = "resolved", !.status = 405]
                  /\ UNCHANGED <<env, fetch>>
             ELSE \E api \in BOOLEAN :
                    /\ api => env.creds
                    /\ env' = [env EXCEPT !.calendarApi = api]
                    /\ run' = r
                    /\ fetch' = FetchCalled
    /\ UNCHANGED <<groupVars, runs, meet, posts>>

\* createGroups(users, GROUP_SIZE) is entered.
CallCreateGroups(n) ==
    /\ variant' = "simple"
    /\ groupSize' = GROUP_SIZE
    /\ input' = [k \in 1..n |-> k]
    /\ heap' = <<[k \in 1..n |-> k]>>
    /\ shuffledUsers' = 0
    /\ groups' = <<>>
    /\ i' = 0
    /\ currentIndex' = 0
    /\ redistribute' = FALSE
    /\ swaps' = 0
    /\ pc' = "entry"
    /\ result' = <<>>
    /\ choices' = <<>>
    /\ previous' = previous

\* getChannelMembers has returned: fewer than 2 users are reported and end
\* the run, else createGroups is called.
RunAfterFetch ==
    /\ run.pc = "fetching" /\ fetch.pc = "returned"
    /\ fetch' = NoFetch
    /\ LET us == fetch.returned
       IN  IF ~EnoughUsers(Len(us))
           THEN /\ \E ok \in BOOLEAN :
                     /\ Send("insufficient", ReportTo(run.entry), ok, <<>>)
                     /\ run' = Settle([run EXCEPT !.users = us,
                                                  !.fetched = TRUE],
                                      AfterPost(run.entry, ok), 200)
                /\ UNCHANGED groupVars
           ELSE /\ run' = [run EXCEPT !.users = us, !.fetched = TRUE,
                                      !.pc = "grouping"]
                /\ CallCreateGroups(Len(us))
                /\ posts' = posts
    /\ UNCHANGED <<env, meet, runs>>

\* createGroups has returned: no group is reported and ends the run, else
\* the loop over the groups starts.
RunAfterGroups ==
    /\ run.pc = "grouping" /\ pc = "done"
    /\ IF Len(result) = 0
       THEN \E ok \in BOOLEAN :
              /\ Send("insufficient", ReportTo(run.entry), ok, <<>>)
              /\ run' = Settle(run, AfterPost(run.entry, ok), 200)
       ELSE /\ run' = [run EXCEPT !.groups = result, !.i = 1, !.pc = "loop",
                          !.links = [k \in 1..Len(result) |->
                                        [meetLink |-> FALSE,
                                         eventId |-> FALSE]]]
            /\ posts' = posts
    /\ UNCHANGED <<groupVars, runs, env, fetch, meet>>

GroupLine(k, g) == [kind |-> "group", index |-> k, members |-> g]
StatusLine(k, st) == [kind |-> "status", index |-> k, status |-> st]

\* group.members of group k of the run, with the users' addresses.
MembersOf(r, k) ==
    [m \in 1..Len(r.groups[k]) |->
        [id |-> r.groups[k][m], email |-> r.users[r.groups[k][m]]]]

\* One iteration of the loop, up to its end or to the await of
\* createGoogleMeetEvent.
RunLoopStep ==
    /\ run.pc = "loop" /\ run.i <= Len(run.groups)
    /\ LET k == run.i
           g == run.groups[k]
           members == MembersOf(run, k)
       IN  IF BookingEnabled(run.entry)
           THEN IF Len(Attendees(members)) < 1 /\ Len(g) >= 1
                THEN /\ run' = [run EXCEPT
                          !.message = @ \o <<GroupLine(k, g),
                                             StatusLine(k, "noEmail")>>,
                          !.allEventsScheduled = FALSE,
                          !.hasErrors = TRUE,
                          !.i = NextIndex(k, TRUE)]
                     /\ meet' = meet
                ELSE IF Len(g) = 0
                THEN /\ run' = [run EXCEPT
                          !.message = @ \o <<GroupLine(k, g),
                                             StatusLine(k, "empty")>>,
                          !.hasErrors = TRUE,
                          !.i = NextIndex(k, TRUE)]
                     /\ meet' = meet
                ELSE /\ run' = [run EXCEPT
                          !.message = @ \o <<GroupLine(k, g)>>,
                          !.meetCalls = @ + 1,
                          !.pc = "booking"]
                     /\ meet' = [pc |-> "called",
                                 members |-> members,
                                 lead |-> LeadMinutes(run.entry),
                                 duration |-> DurationMinutes(run.entry),
                                 client |-> env.calendarApi,
                                 eventDetails |-> NoDetails]
           ELSE /\ run' = [run EXCEPT
                     !.message = @ \o <<GroupLine(k, g),
                                        StatusLine(k, "skipped")>>,
                     !.allEventsScheduled = FALSE,
                     !.i = NextIndex(k, FALSE)]
                /\ meet' = meet
    /\ UNCHANGED <<groupVars, runs, env, fetch, posts>>

\* createGoogleMeetEvent has returned: the link line or the error line.
RunAfterBooking ==
    /\ run.pc = "booking" /\ meet.pc = "returned"
    /\ LET k == run.i
       IN  IF meet.eventDetails.meetLink
           THEN run' = [run EXCEPT
                   !.links[k] = [meetLink |-> meet.eventDetails.meetLink,
                                 eventId |-> meet.eventDetails.eventId],
                   !.message = @ \o <<StatusLine(k, "booked")>>,
                   !.i = NextIndex(k, FALSE),
                   !.pc = "loop"]
           ELSE run' = [run EXCEPT
                   !.message = @ \o <<StatusLine(k, "error")>>,
                   !.allEventsScheduled = FALSE,
                   !.hasErrors = TRUE,
                   !.i = NextIndex(k, TRUE),
                   !.pc = "loop"]
    /\ meet' = NoMeet
    /\ UNCHANGED <<groupVars, runs, env, fetch, posts>>

FooterOfClient(r) == IF env.calendarApi THEN "all" ELSE "skipped"
Footer(r) ==
    IF r.allEventsScheduled /\ env.calendarApi THEN "all"
    ELSE IF env.calendarApi THEN "some"
    ELSE "skipped"

\* After the loop: the footer is appended and the summary is sent.
RunPost ==
    /\ run.pc = "loop" /\ run.i > Len(run.groups)
    /\ \E ok \in BOOLEAN :
         /\ Send("summary", SummaryTo(run), ok,
                 run.message \o <<[kind |-> "footer", footer |-> Footer(run)]>>)
         /\ run' = Settle(run, AfterPost(run.entry, ok), 200)
    /\ UNCHANGED <<groupVars, runs, env, fetch, meet>>

\* The catch block of the entry point: one notification, itself guarded in
\* the scheduler (postToChannel) and in the API handler (try/catch), bare in
\* the command handler.
RunCatch ==
    /\ run.pc = "catch"
    /\ \E ok \in BOOLEAN :
         /\ Send("failure", ReportTo(run.entry), ok, <<>>)
         /\ run' = [run EXCEPT
                !.pc = "done",
                !.outcome = IF ok \/ run.entry = "api"
                               \/ PostToChannelSwallows(run.entry)
                            THEN "resolved" ELSE "rejected",
                !.status = IF run.entry = "api" THEN 500 ELSE 0]
    /\ UNCHANGED <<groupVars, runs, env, fetch, meet>>

\* A process of one of the variants, with or without calendar credentials.
RunInit ==
    /\ NoCall("simple")
    /\ fetch = NoFetch
    /\ run = NoRun
    /\ meet = NoMeet
    /\ posts = <<>>
    /\ runs = <<>>
    /\ \E app \in {"bot", "health", "serverless"}, creds \in BOOLEAN,
          secret \in {Undefined, "s3cret"} :
         /\ app # "serverless" => secret = Undefined
         /\ env = [NoEnv EXCEPT
                     !.app = app, !.creds = creds,
                     !.process = IF app = "serverless" THEN "running"
                                 ELSE "booting",
                     !.cronSecret = secret]

RunNext ==
    \/ Startup
    \/ TriggerStart
    \/ GenerateStart
    \/ ApiStart
    \/ FetchPage
    \/ FetchInfo
    \/ FetchCursor
    \/ RunAfterFetch
    \/ SimpleEntry
    \/ ShuffleStep
    \/ SimpleChunkStep
    \/ SimpleMerge
    \/ RunAfterGroups
    \/ RunLoopStep
    \/ MeetEnter
    \/ MeetInsertDone
    \/ RunAfterBooking
    \/ RunPost
    \/ RunCatch

RunSpec == RunInit /\ [][RunNext]_vars

----------------------------------------------------------------------------
\* Vocabulary of the run-level properties.

PostsOfKind(kind) == {k \in 1..Len(posts) : posts[k].kind = kind}

\* The run is over, or in its catch block.
RunEnded == run.pc \in {"done", "catch"}

\* The run formed groups and is past the point where it sends the summary.
RunSummarised == RunEnded /\ Len(run.groups) > 0

\* The status lines the code can write for group k, given its members'
\* addresses and whether the loop books.
StatusesFor(r, k) ==
    IF ~BookingEnabled(r.entry) THEN {"skipped"}
    ELSE IF ~SomeHaveEmail(MembersOf(r, k)) THEN {"noEmail"}
    ELSE IF ~AllHaveEmail(MembersOf(r, k)) THEN {"error"}
    ELSE {"booked", "error"}

\* The message holds, for each group in index order, its group line and
\* then its status line.
LinesInOrder(r, body) ==
    /\ Len(body) >= 2 * Len(r.groups)
    /\ \A k \in 1..Len(r.groups) :
         /\ body[2 * k - 1] = GroupLine(k, r.groups[k])
         /\ body[2 * k].kind = "status"
         /\ body[2 * k].index = k
         /\ body[2 * k].status \in StatusesFor(r, k)

\* The groups the loop asks the calendar to book: those whose members all
\* have an address.
BookedIndexes(r) ==
    SelectSeq([k \in 1..Len(r.groups) |-> k],
              LAMBDA k : AllHaveEmail(MembersOf(r, k)))

\* C15. Insufficient input ends the run without booking: in every entry
\* point, when fewer than 2 members were fetched or createGroups returned no
\* group, exactly one 'not enough users / could not form groups' report is
\* sent, no summary is sent and createGoogleMeetEvent is never called.
C15_InsufficientInput ==
    ( /\ run.fetched /\ run.pc = "done"
      /\ Len(run.users) < 2 \/ Len(run.groups) = 0 )
        => /\ Cardinality(PostsOfKind("insufficient")) = 1
           /\ posts[1].kind = "insufficient"
           /\ posts[1].to = ReportTo(run.entry)
           /\ PostsOfKind("summary") = {}
           /\ run.meetCalls = 0
           /\ env.inserts = <<>>

\* The scheduled trigger fetched one user and reported it.
C15_Witness ==
    /\ run.entry = "trigger" /\ run.pc = "done" /\ run.fetched
    /\ Len(run.users) = 1
    /\ Len(posts) = 1 /\ posts[1].kind = "insufficient" /\ posts[1].ok
    /\ run.meetCalls = 0

C17_TriggerNeverRejects ==
    run.entry = "trigger"
        => /\ run.outcome # "rejected"
           /\ run.pc # "catch"
           /\ Cardinality(PostsOfKind("failure")) <= 1
           /\ run.pc = "done" => run.outcome = "resolved"

\* The summary post of a scheduled run failed and the run resolved.
C17_Witness ==
    /\ run.entry = "trigger" /\ run.pc = "done"
    /\ run.outcome = "resolved"
    /\ Len(posts) = 1 /\ posts[1].kind = "summary" /\ ~posts[1].ok

\* C18. Calendar booking is strictly best-effort: without credentials the
\* process still starts, and every run that fetched enough members sends
\* the summary with every group marked skipped and makes no booking call.
C18_CalendarBestEffort ==
    ~env.creds
        => /\ env.process # "exited"
           /\ run.meetCalls = 0 /\ env.inserts = <<>>
           /\ (RunSummarised /\ run.pc = "done")
                => \E p \in PostsOfKind("summary") :
                     \A k \in 1..Len(run.groups) :
                        posts[p].body[2 * k].status = "skipped"

\* C19. /swift-coffees-generate is the same run-once procedure as
\* triggerCoffeeShuffle, which fetches whenever it is called, books with the
\* scheduler's lead time and duration and sends every report and summary to
\* the configured channel: so does every run of either entry point.
C19_SameProcedure ==
    run.entry \in {"trigger", "generate"}
        => /\ run.pc = "done" => run.fetched
           /\ \A p \in 1..Len(posts) :
                posts[p].kind \in {"summary", "insufficient"}
                    => posts[p].to = "channel"
           /\ \A n \in 1..Len(env.inserts) :
                /\ env.inserts[n].lead = SchedulerLead
                /\ env.inserts[n].duration = meetDuration

\* C20. Every run that forms at least one group sends exactly one summary,
\* to a channel, holding each group's line and status line in index order,
\* whether or not a booking failed.
C20_OneSummaryToChannel ==
    (RunSummarised /\ run.entry \in {"trigger", "generate"})
        => /\ Cardinality(PostsOfKind("summary")) = 1
           /\ \A p \in PostsOfKind("summary") :
                /\ posts[p].to \in {"channel", "otherChannel"}
                /\ LinesInOrder(run, posts[p].body)

\* C21. The /api/coffee-shuffle handler shuffles only for requests that
\* present the configured cron secret: whatever CRON_SECRET and the method
\* are, a request whose Authorization header is not 'Bearer ' followed by a
\* configured secret is answered 401 and causes no fetch, no Slack post, no
\* grouping and no calendar call; with no secret configured no request is
\* authorized.
C21_SecretRequired ==
    ( /\ run.entry = "api"
      /\ \/ env.cronSecret = Undefined
         \/ run.request.authorization # <<"Bearer", env.cronSecret>> )
        => /\ run.status = 401
           /\ run.pc = "done"
           /\ ~run.fetched /\ fetch = NoFetch
           /\ posts = <<>>
           /\ pc = "idle"
           /\ run.meetCalls = 0 /\ env.inserts = <<>>

----------------------------------------------------------------------------
\* Sizes of the groups createGroups returns.

\* C23. createGroups of src/src/utils.ts, groupSize > 2 and N >= 2: every
\* group but the last has exactly groupSize members, the last has between 2
\* and groupSize+1, a trailing chunk of one member having been merged into
\* the group before it: the number of groups is floor(N/groupSize) when
\* N mod groupSize = 1 and ceil(N/groupSize) otherwise.
C23_SimpleSizes ==
    (SimpleReturned /\ groupSize > 2 /\ N >= 2)
        => LET sz == Sizes(result)
               n == Len(sz)
           IN  /\ n >= 1
               /\ \A k \in 1..(n - 1) : sz[k] = groupSize
               /\ sz[n] >= 2 /\ sz[n] <= groupSize + 1
               /\ n = IF N % groupSize = 1 THEN N \div groupSize
                      ELSE CeilDiv(N, groupSize)
               /\ IsPartition(result, input)

\* Ten participants, groupSize 3: chunks 3, 3, 3, 1 returned as 3, 3, 4.
C23_Witness ==
    /\ SimpleReturned /\ groupSize = 3 /\ N = 10
    /\ Sizes(result) = <<3, 3, 4>>

\* C24. createGroups of part_001, N >= 2 and targetSize >= 2: every group
\* returned has at most targetSize+1 members.
C24_AtMostOneOver ==
    (FullReturned /\ N >= 2 /\ groupSize >= 2)
        => \A k \in 1..Len(result) : Len(result[k]) <= groupSize + 1

\* The group list the repair pass was given, read from the arrays it leaves
\* in the heap: the arrays follow the caller's array in the order of the
\* list, start with their original members, and those are consecutive.
OriginalGroup(g) ==
    LET first == heap[g + 1][1]
        last == IF g + 1 = Len(heap) THEN Len(input) ELSE heap[g + 2][1] - 1
    IN  [m \in 1..(last - first + 1) |-> first + m - 1]

OriginalGroups == [g \in 1..(Len(heap) - 1) |-> OriginalGroup(g)]

\* The indexes (from 1) of the groups of r that satisfy Test, in order.
IndexesWhere(r, Test(_)) ==
    SelectSeq([k \in 1..Len(r) |-> k], LAMBDA k : Test(r[k]))

\* C25. The repair pass of createGroups (part_001), given a list with at
\* least one group of 2 or more members: every group of exactly one member
\* is dissolved and the k-th dissolved member (from 0, in list order) is
\* appended to the (k mod V)-th of the V remaining groups; the remaining
\* groups keep their order and their members, and no member is lost or
\* duplicated.
C25_RoundRobin ==
    ( /\ variant = "repair" /\ pc = "done" /\ i = 0
      /\ \E g \in 1..Len(OriginalGroups) : Len(OriginalGroups[g]) >= 2 )
        => LET orig == OriginalGroups
               IsSingle(g) == Len(g) = 1
               IsValid(g) == Len(g) > 1
               valid == IndexesWhere(orig, IsValid)
               single == IndexesWhere(orig, IsSingle)
               V == Len(valid)
               Added(v) ==
                   LET mine == SelectSeq([k \in 1..Len(single) |-> k],
                                   LAMBDA k : (k - 1) % V = v - 1)
                   IN  [a \in 1..Len(mine) |-> orig[single[mine[a]]][1]]
           IN  /\ Len(result) = V
               /\ \A v \in 1..V : result[v] = orig[valid[v]] \o Added(v)
               /\ IsPartition(result, input)

\* Groups [1,2], [3], [4,5], [6], [7]: 3 goes to the first remaining group,
\* 6 to the second, 7 to the first again.
C25_Witness ==
    /\ variant = "repair" /\ pc = "done" /\ i = 0
    /\ result = <<<<1, 2, 3, 7>>, <<4, 5, 6>>>>

----------------------------------------------------------------------------
\* The footer, the links and the calendar.

\* The footer of the summary that was sent.
SentFooter(p) == posts[p].body[Len(posts[p].body)].footer

\* The insert calls made for group k of the run.
InsertsFor(r, k) ==
    {n \in 1..Len(env.inserts) : env.inserts[n].attendees = MembersOf(r, k)}

\* C27. Footer of triggerCoffeeShuffle: the 'all scheduled' footer is
\* written if and only if the calendar client is present and every group of
\* the run has its meetLink set, the 'skipped' footer if and only if the
\* client is absent, and a group has meetLink or eventId set only if its own
\* booking call returned a link.
C27_FooterConsistent ==
    (run.entry = "trigger" /\ RunSummarised)
        => /\ \A p \in PostsOfKind("summary") :
                /\ SentFooter(p) = "all"
                     <=> /\ env.calendarApi
                         /\ \A k \in 1..Len(run.groups) : run.links[k].meetLink
                /\ SentFooter(p) = "skipped" <=> ~env.calendarApi
                /\ SentFooter(p) \in {"all", "some", "skipped"}
           /\ \A k \in 1..Len(run.groups) :
                (run.links[k].meetLink \/ run.links[k].eventId)
                    => /\ \E n \in InsertsFor(run, k) :
                            env.inserts[n].outcome = "ok"
                       /\ AllHaveEmail(MembersOf(run, k))

\* Two groups with a client: one booked, one not, and the footer says that
\* some events could not be scheduled.
C27_Witness ==
    /\ run.entry = "trigger" /\ run.pc = "done" /\ env.calendarApi
    /\ Len(run.groups) = 2
    /\ run.links[1].meetLink /\ ~run.links[2].meetLink
    /\ Len(posts) = 1 /\ posts[1].kind = "summary"
    /\ SentFooter(1) = "some"

\* C28. Whenever a run reports a booking error for a group, no calendar
\* event was created for that group: every insert that resolved has that
\* group's meetLink and eventId recorded and the group reported as booked.
C28_ErrorMeansNoEvent ==
    RunSummarised
        => \A k \in 1..Len(run.groups) :
             \A n \in InsertsFor(run, k) :
                env.inserts[n].outcome \in {"ok", "nolink"}
                    => /\ run.links[k].meetLink /\ run.links[k].eventId
                       /\ \A p \in PostsOfKind("summary") :
                            posts[p].body[2 * k].status = "booked"

----------------------------------------------------------------------------
\* One CoffeeScheduler under any sequence of calls of startWeeklySchedule,
\* stopSchedule and getScheduleInfo, up to MaxSchedCalls calls.

MaxSchedCalls == 5

Called(op, info) == Append(env.calls, [op |-> op, info |-> info])

StartWeeklyScheduleCall ==
    /\ Len(env.calls) < MaxSchedCalls
    /\ env' = [startWeeklySchedule(env) EXCEPT
                 !.calls = Called("start", "none")]
    /\ UNCHANGED <<groupVars, runs, fetch, run, meet, posts>>

StopScheduleCall ==
    /\ Len(env.calls) < MaxSchedCalls
    /\ env' = [stopSchedule(env) EXCEPT !.calls = Called("stop", "none")]
    /\ UNCHANGED <<groupVars, runs, fetch, run, meet, posts>>

GetScheduleInfoCall ==
    /\ Len(env.calls) < MaxSchedCalls
    /\ env' = [env EXCEPT !.calls = Called("info", getScheduleInfo(env))]
    /\ UNCHANGED <<groupVars, runs, fetch, run, meet, posts>>

SchedInit ==
    /\ NoCall("scheduler")
    /\ fetch = NoFetch
    /\ run = NoRun
    /\ meet = NoMeet
    /\ posts = <<>>
    /\ runs = <<>>
    /\ env = [NoEnv EXCEPT !.app = "bot", !.process = "running",
                           !.coffeeScheduler = TRUE]

SchedNext ==
    \/ StartWeeklyScheduleCall
    \/ StopScheduleCall
    \/ GetScheduleInfoCall

SchedSpec == SchedInit /\ [][SchedNext]_vars

\* The cron tasks that are running.
LiveTasks == {n \in 1..Len(env.cron) : env.cron[n] = "live"}

\* C30. After any sequence of startWeeklySchedule and stopSchedule calls on
\* one scheduler at most one cron task it created is live, and it is the
\* one the scheduler holds (a task replaced by a later start was stopped
\* first); stopSchedule is idempotent; and getScheduleInfo answers
\* 'scheduled' if and only if a live task is held.
C30_ScheduleInvariant ==
    /\ Cardinality(LiveTasks) <= 1
    /\ LiveTasks = IF env.scheduledTask = 0 THEN {} ELSE {env.scheduledTask}
    /\ stopSchedule(stopSchedule(env)) = stopSchedule(env)
    /\ stopSchedule(env).scheduledTask = 0
    /\ LiveTasks # {} <=> getScheduleInfo(env) = "scheduled"
    /\ \A n \in 1..Len(env.calls) :
         /\ env.calls[n].op = "info" /\ n = Len(env.calls)
              => (env.calls[n].info = "scheduled" <=> LiveTasks # {})
         /\ (n > 1 /\ n = Len(env.calls) /\ env.calls[n].op = "stop"
                /\ env.calls[n - 1].op = "stop")
              => LiveTasks = {}

\* Two starts, two stops and a question: both tasks are stopped.
C30_Witness ==
    /\ Len(env.calls) = 5
    /\ env.calls[1].op = "start" /\ env.calls[2].op = "start"
    /\ env.calls[3].op = "stop" /\ env.calls[4].op = "stop"
    /\ env.calls[5] = [op |-> "info", info |-> "notScheduled"]
    /\ env.cron = <<"stopped", "stopped">>

\* C22. After a startup of the bot that did not exit, exactly one weekly
\* cron task is live, it is the one created at startup, and no command and
\* no run, completed or failed, stops, replaces or duplicates it.
C22_OneWeeklyTask ==
    (env.process = "running" /\ env.app \in {"bot", "health"})
        => /\ env.coffeeScheduler
           /\ env.cron = <<"live">>
           /\ env.scheduledTask = 1

\* A run started by the trigger has ended in its catch block, and the task
\* of the startup is still the only one.
C22_Witness ==
    /\ env.process = "running" /\ env.app = "bot"
    /\ run.entry = "trigger" /\ run.pc = "done" /\ Len(posts) > 0
    /\ env.cron = <<"live">> /\ LiveTasks = {1}

----------------------------------------------------------------------------
\* Two calls of triggerCoffeeShuffle that overlap: the cron callback and
\* /swift-coffees-trigger-now, in a bot that has started. Each call has its
\* own locals, runs[n]; the scheduler's fields, the calendar and the channel
\* are shared. A call runs from one await to the next without interruption.

MaxOverlapUsers == 5

Invocations == {1, 2}

\* The orders shuffleArray can give, with at most MaxSwaps exchanges.
ShufflesOf(n) ==
    {ShuffleFrom([k \in 1..n |-> k], c, 1) :
        c \in {d \in ChoiceSeqs(n) :
                 Cardinality({k \in 1..Len(d) : d[k] # n - k}) <= MaxSwaps}}

\* The loop of createGroups (simple): slices of size members.
Chunk(a, size) ==
    [g \in 1..((Len(a) + size - 1) \div size) |->
        SubSeq(a, (g - 1) * size + 1, Min(g * size, Len(a)))]

\* createGroups (simple) on the shuffled list a.
SimpleGroups(a, size) ==
    LET c == Chunk(a, size)
        n == Len(c)
    IN  IF n > 0 /\ MergeLast(n, Len(c[n]), size)
        THEN [g \in 1..(n - 1) |-> IF g = n - 1 THEN c[g] \o c[n] ELSE c[g]]
        ELSE c

\* const groups of call n.
GroupsOfFirst(fs, n) == fs[1].groups
GroupsOf(fs, n) == fs[n].groups

\* group.members of group k as call n reads it: the users of the group,
\* each with its address.
MembersIn(fs, n, k) == GroupsOf(fs, n)[k]

\* The loop of call n from its index up to the next await: the call of
\* createGoogleMeetEvent, or the post of the summary.
RECURSIVE RunToAwait(_, _)
RunToAwait(fs, n) ==
    LET f == fs[n]
        k == f.i
    IN  IF k > Len(GroupsOf(fs, n))
        THEN [fs EXCEPT ![n].pc = "posting"]
        ELSE IF ~env.calendarApi
        THEN RunToAwait(
               [fs EXCEPT ![n].message =
                              @ \o <<GroupLine(k, GroupsOf(fs, n)[k]),
                                     StatusLine(k, "skipped")>>,
                          ![n].allEventsScheduled = FALSE,
                          ![n].i = NextIndex(k, FALSE)], n)
        ELSE IF Len(Attendees(MembersIn(fs, n, k))) < 1
        THEN RunToAwait(
               [fs EXCEPT ![n].message =
                              @ \o <<GroupLine(k, GroupsOf(fs, n)[k]),
                                     StatusLine(k, "noEmail")>>,
                          ![n].allEventsScheduled = FALSE,
                          ![n].hasErrors = TRUE,
                          ![n].i = NextIndex(k, TRUE)], n)
        ELSE [fs EXCEPT ![n].message =
                            @ \o <<GroupLine(k, GroupsOf(fs, n)[k])>>,
                        ![n].meetCalls = @ + 1,
                        ![n].pc = "booking"]

\* postToChannel by call n, settled; it returns whether or not
\* chat.postMessage resolved, and which of the two is not recorded.
PostBy(n, kind, body) ==
    posts' = Append(posts, [kind |-> kind, to |-> "channel", body |-> body,
                            run |-> n])

\* The cron callback fires, or /swift-coffees-trigger-now is handled:
\* triggerCoffeeShuffle is called and awaits getChannelMembers. Call 2 is
\* the later of the two.
OverlapStart(n) ==
    /\ runs[n].pc = "idle"
    /\ n = 2 => runs[1].pc # "idle"
    /\ env' = EnsureScheduler(env)
    /\ runs' = [runs EXCEPT ![n] = StartRun("trigger", "configured")]
    /\ UNCHANGED <<groupVars, fetch, run, meet, posts>>

\* getChannelMembers returns to call n the members the channel has at that
\* time (none when a request failed); createGroups and the loop follow up
\* to the next await.
OverlapFetched(n) ==
    /\ runs[n].pc = "fetching"
    /\ \E count \in 0..MaxOverlapUsers, email \in BOOLEAN :
            LET us == [k \in 1..count |-> [id |-> k, email |-> email]]
            IN  IF ~EnoughUsers(count)
                THEN /\ PostBy(n, "insufficient", <<>>)
                     /\ runs' = [runs EXCEPT ![n].users = us,
                                             ![n].fetched = TRUE,
                                             ![n].pc = "done",
                                             ![n].outcome = "resolved"]
                ELSE \E a \in ShufflesOf(count) :
                       LET gs == SimpleGroups([k \in 1..count |-> us[a[k]]],
                                              GROUP_SIZE)
                       IN  /\ runs' = RunToAwait(
                                [runs EXCEPT
                                    ![n].users = us,
                                    ![n].fetched = TRUE,
                                    ![n].groups = gs,
                                    ![n].links =
                                        [k \in 1..Len(gs) |->
                                            [meetLink |-> FALSE,
                                             eventId |-> FALSE]],
                                    ![n].i = 1,
                                    ![n].pc = "loop"], n)
                           /\ posts' = posts
    /\ UNCHANGED <<groupVars, env, fetch, run, meet>>

\* createGoogleMeetEvent settles for call n: it returns a link (the insert
\* resolved with one) or an error; the loop goes on to the next await.
OverlapBooked(n) ==
    /\ runs[n].pc = "booking"
    /\ \E outcome \in {"ok", "throw"} :
         LET k == runs[n].i
         IN  /\ env' = [env EXCEPT !.inserts =
                          Append(@, [attendees |->
                                        Attendees(MembersIn(runs, n, k)),
                                     of |-> Len(MembersIn(runs, n, k)),
                                     lead |-> LeadMinutes("trigger"),
                                     duration |-> DurationMinutes("trigger"),
                                     outcome |-> outcome,
                                     run |-> n])]
             /\ runs' = RunToAwait(
                   IF outcome = "ok"
                   THEN [runs EXCEPT
                           ![n].links[k] = [meetLink |-> TRUE,
                                            eventId |-> TRUE],
                           ![n].message = @ \o <<StatusLine(k, "booked")>>,
                           ![n].i = NextIndex(k, FALSE),
                           ![n].pc = "loop"]
                   ELSE [runs EXCEPT
                           ![n].message = @ \o <<StatusLine(k, "error")>>,
                           ![n].allEventsScheduled = FALSE,
                           ![n].hasErrors = TRUE,
                           ![n].i = NextIndex(k, TRUE),
                           ![n].pc = "loop"], n)
    /\ UNCHANGED <<groupVars, fetch, run, meet, posts>>

\* The summary of call n is posted; postToChannel swallows a failure.
OverlapPost(n) ==
    /\ runs[n].pc = "posting"
    /\ PostBy(n, "summary",
              runs[n].message
                  \o <<[kind |-> "footer", footer |-> Footer(runs[n])]>>)
    /\ runs' = [runs EXCEPT ![n].pc = "done", ![n].outcome = "resolved"]
    /\ UNCHANGED <<groupVars, env, fetch, run, meet>>

OverlapInit ==
    /\ NoCall("overlap")
    /\ fetch = NoFetch
    /\ run = NoRun
    /\ meet = NoMeet
    /\ posts = <<>>
    /\ runs = <<NoRun, NoRun>>
    /\ \E api \in BOOLEAN :
         env = [StartScheduler(NoEnv) EXCEPT !.app = "bot", !.creds = api,
                                             !.calendarApi = api,
                                             !.process = "running"]

OverlapNext ==
    \E n \in Invocations :
        \/ OverlapStart(n)
        \/ OverlapFetched(n)
        \/ OverlapBooked(n)
        \/ OverlapPost(n)

OverlapSpec == OverlapInit /\ [][OverlapNext]_vars

\* The members named by the group lines of a summary, group by group.
GroupsPosted(body) ==
    LET ls == SelectSeq(body, LAMBDA l : l.kind = "group")
    IN  [k \in 1..Len(ls) |-> ls[k].members]

\* The ids of a list of users.
Ids(g) == {g[m].id : m \in 1..Len(g)}

\* The members a calendar insert invited.
Invited(e) == Ids(e.attendees)

\* Call n asked the calendar for an event for the members g, and got a link.
BookedBy(n, g) ==
    \E x \in 1..Len(env.inserts) :
        /\ env.inserts[x].run = n
        /\ env.inserts[x].outcome = "ok"
        /\ Invited(env.inserts[x]) = Ids(g)

\* What holds of two overlapping calls in every state.
OverlapInvariant ==
    /\ \A p \in 1..Len(posts) :
         posts[p].kind = "summary"
            => LET n == posts[p].run
                   gs == GroupsPosted(posts[p].body)
               IN  /\ gs = runs[n].groups
                   /\ IsPermutationOf(Flatten(gs), runs[n].users)
                   /\ \A k \in 1..Len(gs) :
                        /\ Len(gs[k]) > 0
                        /\ posts[p].body[2 * k].index = k
                        /\ posts[p].body[2 * k].status = "booked"
                             <=> runs[n].links[k].meetLink
    /\ \A n \in Invocations :
         \A k \in 1..Len(runs[n].links) :
            (runs[n].links[k].meetLink \/ runs[n].links[k].eventId)
                => BookedBy(n, runs[n].groups[k])
    /\ \A x \in 1..Len(env.inserts) :
         \E k \in 1..Len(runs[env.inserts[x].run].groups) :
            Invited(env.inserts[x])
                = Ids(runs[env.inserts[x].run].groups[k])
    /\ env.coffeeScheduler /\ env.cron = <<"live">> /\ env.scheduledTask = 1

\* What holds of every step of two overlapping calls.
OverlapStep ==
    /\ env'.calendarApi = env.calendarApi
    /\ env'.coffeeScheduler = env.coffeeScheduler
    /\ env'.scheduledTask = env.scheduledTask
    /\ env'.cron = env.cron
    /\ \E n \in Invocations :
         \A m \in Invocations \ {n} : runs'[m] = runs[m]
    /\ \A n \in Invocations :
         runs[n].fetched
            => /\ runs'[n].users = runs[n].users
               /\ runs'[n].groups = runs[n].groups

\* C29. Two calls of triggerCoffeeShuffle that overlap are independent
\* under every interleaving of their awaits: the groups each call posts are
\* a partition of the members that same call fetched, a Meet link is
\* recorded and reported only for a group of the call that booked it, and
\* no step of a call changes the scheduler's fields, the calendar client or
\* the locals of the other call.
C29_RunsIndependent == []OverlapInvariant /\ [][OverlapStep]_vars

\* Both calls have posted their summaries, the later call first; they
\* fetched different member lists, and their bookings alternated.
C29_Witness ==
    /\ runs[1].pc = "done" /\ runs[2].pc = "done"
    /\ Len(runs[1].users) = 5 /\ Len(runs[2].users) = 3
    /\ Len(posts) = 2
    /\ posts[1].kind = "summary" /\ posts[1].run = 2
    /\ posts[2].kind = "summary" /\ posts[2].run = 1
    /\ Len(env.inserts) = 3
    /\ env.inserts[1].run = 1 /\ env.inserts[2].run = 2
    /\ env.inserts[3].run = 1
    /\ runs[1].links[1].meetLink /\ ~runs[1].links[2].meetLink
    /\ runs[2].links[1].meetLink

=============================================================================
